---- MODULE Spec2Model ----
(***************************************************************************)
(* Model of Main_notebook.ipynb: the shuffle-and-split cell (train /       *)
(* validation partition of the Standard Map dataset) and the JHMAP         *)
(* ingestion loop (external trajectories -> normalised res x res grids).   *)
(*                                                                         *)
(* Python floats are IEEE-754 binary64.  The expressions 2/3, 1-frac and   *)
(* frac*Np are evaluated here bit for bit: a float is a record             *)
(* [m |-> big-endian bit sequence, e |-> exponent] of value m * 2^e, and   *)
(* every operation rounds to 53 significant bits, ties to even.            *)
(***************************************************************************)
EXTENDS Integers, Sequences, FiniteSets, TLC

\* ---------------------------------------------------------------- bounds
MaxNp == 5          \* longest dataset whose every permutation is explored
MaxDen == 5         \* largest denominator q of a train fraction p/q
MaxLen == 384       \* longest dataset in the length-only specification
MaxRows == 3        \* most rows in an external trajectory file
MaxNPoints == 3     \* largest n_points
TableLen == 3       \* entries of the (file id, label) table that are read

\* ------------------------------------------------- binary64 arithmetic
Prec == 53

Front(s) == SubSeq(s, 1, Len(s) - 1)

Last(s) == s[Len(s)]

RECURSIVE Pow2(_)
Pow2(k) == IF k = 0 THEN 1 ELSE 2 * Pow2(k - 1)

RECURSIVE Zeros(_)
Zeros(k) == IF k <= 0 THEN <<>> ELSE <<0>> \o Zeros(k - 1)

RECURSIVE StripLead(_)
StripLead(b) == IF b # <<>> /\ b[1] = 0 THEN StripLead(Tail(b)) ELSE b

\* the bits of a small natural number, most significant first
RECURSIVE ToBits(_)
ToBits(k) == IF k = 0 THEN <<>> ELSE ToBits(k \div 2) \o <<k % 2>>

RECURSIVE BitsToInt(_)
BitsToInt(b) == IF b = <<>> THEN 0 ELSE 2 * BitsToInt(Front(b)) + Last(b)

RECURSIVE IncBits(_)
IncBits(b) ==
    IF b = <<>> THEN <<1>>
    ELSE IF Last(b) = 0 THEN Front(b) \o <<1>>
    ELSE IncBits(Front(b)) \o <<0>>

\* canonical form: no trailing zero bit in the significand
RECURSIVE StripTrail(_, _)
StripTrail(b, e) ==
    IF b = <<>> THEN [m |-> <<>>, e |-> 0]
    ELSE IF Last(b) = 0 THEN StripTrail(Front(b), e + 1)
    ELSE [m |-> b, e |-> e]

\* round the exact value b * 2^e to Prec significant bits, ties to even
RoundFloat(b0, e) ==
    LET b == StripLead(b0)
        n == Len(b)
    IN  IF n <= Prec THEN StripTrail(b, e)
        ELSE LET keep == SubSeq(b, 1, Prec)
                 rest == SubSeq(b, Prec + 1, n)
                 sticky == \E j \in 2..Len(rest) : rest[j] = 1
                 up == rest[1] = 1 /\ (sticky \/ keep[Prec] = 1)
             IN  StripTrail(IF up THEN IncBits(keep) ELSE keep, e + (n - Prec))

\* n quotient bits of r/q (r < 2q), most significant first, then a sticky bit
RECURSIVE DivBits(_, _, _)
DivBits(r, q, n) ==
    IF n = 0 THEN <<IF r = 0 THEN 0 ELSE 1>>
    ELSE IF r >= q THEN <<1>> \o DivBits(2 * (r - q), q, n - 1)
    ELSE <<0>> \o DivBits(2 * r, q, n - 1)

RECURSIVE NormShift(_, _)
NormShift(p, q) == IF p >= q THEN 0 ELSE 1 + NormShift(2 * p, q)

\* Python's p / q on ints 0 <= p <= q, q >= 1: the correctly rounded quotient
DivFloat(p, q) ==
    IF p = 0 THEN [m |-> <<>>, e |-> 0]
    ELSE LET s == NormShift(p, q)
         IN  RoundFloat(DivBits(p * Pow2(s), q, Prec + 1), 0 - s - Prec - 1)

\* a - b on bit sequences of equal length, a >= b
RECURSIVE SubBits(_, _, _)
SubBits(a, b, borrow) ==
    IF a = <<>> THEN <<>>
    ELSE LET d == Last(a) - Last(b) - borrow
         IN  IF d < 0
             THEN SubBits(Front(a), Front(b), 1) \o <<d + 2>>
             ELSE SubBits(Front(a), Front(b), 0) \o <<d>>

\* Python's 1 - x for a float 0 <= x <= 1
OneMinus(x) ==
    IF x.m = <<>> THEN [m |-> <<1>>, e |-> 0]
    ELSE IF x.e >= 0 THEN [m |-> <<>>, e |-> 0]
    ELSE LET w == 1 - x.e
             one == <<1>> \o Zeros(w - 1)
             sub == Zeros(w - Len(x.m)) \o x.m
         IN  RoundFloat(SubBits(one, sub, 0), x.e)

RECURSIVE MulBits(_, _, _)
MulBits(b, n, carry) ==
    IF b = <<>> THEN ToBits(carry)
    ELSE LET t == Last(b) * n + carry
         IN  IF t % 2 = 0
             THEN MulBits(Front(b), n, t \div 2) \o <<0>>
             ELSE MulBits(Front(b), n, t \div 2) \o <<1>>

\* Python's x * n for a float x >= 0 and an int n >= 0
MulFloatInt(x, n) == RoundFloat(MulBits(x.m, n, 0), x.e)

\* mutant of IntOfFloat: rounds up (math.ceil) instead of truncating
IntOfFloatCeil(x) ==
    IF x.e >= 0 THEN BitsToInt(x.m) * Pow2(x.e)
    ELSE IF Len(x.m) + x.e <= 0 THEN 1
    ELSE BitsToInt(SubSeq(x.m, 1, Len(x.m) + x.e)) + 1

\* Python's int(x) for a float x >= 0: truncation
IntOfFloat(x) ==
    IF x.e >= 0 THEN BitsToInt(x.m) * Pow2(x.e)
    ELSE IF Len(x.m) + x.e <= 0 THEN 0
    ELSE BitsToInt(SubSeq(x.m, 1, Len(x.m) + x.e))

\* ------------------------------------------------------- Python slices
\* d[:k] for k >= 0
SliceTo(d, k) == SubSeq(d, 1, IF k < Len(d) THEN k ELSE Len(d))

\* mutant of SliceFromNeg: an empty tail for k = 0
SliceFromNegEmptyAtZero(d, k) ==
    IF k >= Len(d) THEN d ELSE SubSeq(d, Len(d) - k + 1, Len(d))

\* d[-k:] for k >= 0; -0 is 0, so d[-0:] is d[0:], the whole sequence
SliceFromNeg(d, k) ==
    IF k = 0 THEN d
    ELSE IF k >= Len(d) THEN d
    ELSE SubSeq(d, Len(d) - k + 1, Len(d))

\* int((frac)*Np) with frac = p/q
TrainCount(f, n) == IntOfFloat(MulFloatInt(DivFloat(f.num, f.den), n))

\* mutant of ValCount: the entries the train slice left, Np - int(frac*Np)
ValCountRest(f, n) == n - IntOfFloat(MulFloatInt(DivFloat(f.num, f.den), n))

\* int((1-frac)*Np) with frac = p/q
ValCount(f, n) == IntOfFloat(MulFloatInt(OneMinus(DivFloat(f.num, f.den)), n))

\* ------------------------------------------------- shuffle-and-split cell
VARIABLES X_train, y, Np, frac, data_SM, data_train, data_val, pc

splitVars == <<X_train, y, Np, frac, data_SM, data_train, data_val, pc>>

\* the train fractions p/q that are explored (the notebook sets frac = 2/3)
Fractions == {[num |-> p, den |-> q] : <<p, q>> \in {pq \in (0..MaxDen) \X (1..MaxDen) : pq[1] <= pq[2]}}

\* data_SM[0]: the orbits, each standing for its index in the source dataset
SourceGrids(n) == [i \in 1..n |-> i]

\* data_SM[1]: order (1) entries first, chaos (0) entries after them
SourceLabels(n, t) == [i \in 1..n |-> IF i <= t THEN 1 ELSE 0]

\* mutant of ShuffleArrays: only the grids are permuted
ShuffleGridsOnly(X, labels, perm) == <<[i \in 1..Len(X) |-> X[perm[i]]], labels>>

\* sklearn.utils.shuffle(X_train, y): one permutation indexes every array
ShuffleArrays(X, labels, perm) ==
    <<[i \in 1..Len(X) |-> X[perm[i]]], [i \in 1..Len(labels) |-> labels[perm[i]]]>>

\* the state after X_train = data_SM[0]; y = data_SM[1]
InitSplitVars ==
    /\ Np \in 1..MaxNp
    /\ frac \in Fractions
    /\ X_train = SourceGrids(Np)
    /\ y = SourceLabels(Np, (Np + 1) \div 2)
    /\ data_SM = <<X_train, y>>
    /\ data_train = <<>>
    /\ data_val = <<>>
    /\ pc = "shuffle"

\* data_SM = shuffle(X_train, y)
Shuffle ==
    /\ pc = "shuffle"
    /\ \E perm \in Permutations(1..Np) : data_SM' = ShuffleArrays(X_train, y, perm)
    /\ pc' = "train"
    /\ UNCHANGED <<X_train, y, Np, frac, data_train, data_val>>

\* data_train = [d[:int((frac)*Np)] for d in data_SM]
TrainSlice ==
    /\ pc = "train"
    /\ data_train' = [k \in 1..2 |-> SliceTo(data_SM[k], TrainCount(frac, Np))]
    /\ pc' = "val"
    /\ UNCHANGED <<X_train, y, Np, frac, data_SM, data_val>>

\* data_val = [d[-int((1-frac)*Np):] for d in data_SM]
ValSlice ==
    /\ pc = "val"
    /\ data_val' = [k \in 1..2 |-> SliceFromNeg(data_SM[k], ValCount(frac, Np))]
    /\ pc' = "done"
    /\ UNCHANGED <<X_train, y, Np, frac, data_SM, data_train>>

\* ------------------------------------- the split cell on long datasets
\* The lengths of the two slices depend on Np and frac only, so datasets up
\* to MaxLen entries are split without enumerating their permutations.
VARIABLES lenNp, lenFrac, lenData, lenTrain, lenVal, lenPc

lenVars == <<lenNp, lenFrac, lenData, lenTrain, lenVal, lenPc>>

LenFractions == {[num |-> 2, den |-> 3], [num |-> 1, den |-> 2]}

InitLenVars ==
    /\ lenNp \in 1..MaxLen
    /\ lenFrac \in LenFractions
    /\ lenData = SourceGrids(lenNp)
    /\ lenTrain = 0
    /\ lenVal = 0
    /\ lenPc = "train"

LenTrainSlice ==
    /\ lenPc = "train"
    /\ lenTrain' = Len(SliceTo(lenData, TrainCount(lenFrac, lenNp)))
    /\ lenPc' = "val"
    /\ UNCHANGED <<lenNp, lenFrac, lenData, lenVal>>

LenValSlice ==
    /\ lenPc = "val"
    /\ lenVal' = Len(SliceFromNeg(lenData, ValCount(lenFrac, lenNp)))
    /\ lenPc' = "done"
    /\ UNCHANGED <<lenNp, lenFrac, lenData, lenTrain>>

\* --------------------------------------------------- JHMAP ingestion loop
\* file_rows is the number of rows of the file read last, before truncation;
\* loadtxt_log lists, per iteration, the file id read and the truncated array
VARIABLES n_points, res, pos, test_i, data_JHMAP_orbits, data_JHMAP_labels,
          file_rows, loadtxt_log, status

ingestVars == <<n_points, res, pos, test_i, data_JHMAP_orbits,
                data_JHMAP_labels, file_rows, loadtxt_log, status>>

\* the (file id, label) table
data == << <<"001", 1>>, <<"002", 1>>, <<"003", 0>>, <<"004", 0>>,
           <<"005", 0>>, <<"006", 0>>, <<"007", 1>>, <<"008", 1>>,
           <<"009", 1>>, <<"010", 1>>, <<"011", 0>>, <<"012", 0>>,
           <<"013", 0>>, <<"014", 0>>, <<"015", 0>>, <<"016", 0>>,
           <<"017", 0>>, <<"018", 0>>, <<"019", 1>>, <<"020", 1>>,
           <<"021", 1>> >>

\* the rows an external file may hold (x, y); integers stand for the floats
RowKinds == {<<0, 1>>, <<-2, 1>>, <<1, -2>>}

RECURSIVE SeqsUpTo(_, _)
SeqsUpTo(S, n) ==
    IF n = 0 THEN {<<>>}
    ELSE LET shorter == SeqsUpTo(S, n - 1)
         IN  shorter \cup {Append(f, r) : <<f, r>> \in {fr \in shorter \X S : Len(fr[1]) = n - 1}}

\* the contents an external file may have
Files == SeqsUpTo(RowKinds, MaxRows)

\* int(np.sqrt(k))
ISqrt(k) == CHOOSE r \in 0..k : r * r <= k /\ (r + 1) * (r + 1) > k

Abs(v) == IF v < 0 THEN 0 - v ELSE v

\* np.loadtxt: a file of several rows is a 2-D array, a file of one row is
\* squeezed to the 1-D array of its two fields, an empty file is an empty
\* 1-D array
LoadTxt(raw) ==
    IF Len(raw) = 0 THEN [ndim |-> 1, a |-> <<>>]
    ELSE IF Len(raw) = 1 THEN [ndim |-> 1, a |-> raw[1]]
    ELSE [ndim |-> 2, a |-> raw]

\* arr[:n_points]
Truncate(arr, n) == [ndim |-> arr.ndim, a |-> SliceTo(arr.a, n)]

\* test_i[:,c]
Column(rows, c) == [i \in 1..Len(rows) |-> rows[i][c]]

\* mutant of MaxAbs: max(col), the absolute value forgotten
MaxNoAbs(col) ==
    CHOOSE m \in {col[i] : i \in 1..Len(col)} : \A i \in 1..Len(col) : col[i] <= m

\* max(np.abs(col)) of a non-empty column
MaxAbs(col) ==
    CHOOSE m \in {Abs(col[i]) : i \in 1..Len(col)} :
        \A i \in 1..Len(col) : Abs(col[i]) <= m

\* np.float64 x / m, kept as the quotient n/d with d >= 0; numpy does not
\* raise on a zero divisor: 0/0 is nan (n = 0, d = 0), x/0 is +-inf (d = 0)
Div(x, m) == IF m < 0 THEN [n |-> 0 - x, d |-> 0 - m] ELSE [n |-> x, d |-> m]

\* the list testX built by the inner loop
Normalise(rows) ==
    [i \in 1..Len(rows) |->
        <<Div(rows[i][1], MaxAbs(Column(rows, 1))),
          Div(rows[i][2], MaxAbs(Column(rows, 2)))>>]

\* the elements of the (len, 2) array in row-major order
Flatten(testX) ==
    [k \in 1..(2 * Len(testX)) |-> testX[(k + 1) \div 2][IF k % 2 = 1 THEN 1 ELSE 2]]

Reshape(flat, r, c) == [i \in 1..r |-> [j \in 1..c |-> flat[(i - 1) * c + j]]]

\* mutant of ReshapeResult: the ValueError is swallowed and an empty grid kept
ReshapeResultSwallow(flat, r) ==
    [ok |-> TRUE, grid |-> IF Len(flat) = r * r THEN Reshape(flat, r, r) ELSE <<>>]

\* testX.reshape(res, res): ValueError unless the array has res*res elements
ReshapeResult(flat, r) ==
    IF Len(flat) = r * r
    THEN [ok |-> TRUE, grid |-> Reshape(flat, r, r)]
    ELSE [ok |-> FALSE, grid |-> <<>>]

\* the body of the loop up to the reshape, on the truncated array t:
\* indexing test_i[i][0] into a 1-D array raises IndexError
BuildGrid(t, r) ==
    IF t.ndim = 1 /\ Len(t.a) > 0 THEN [ok |-> FALSE, grid |-> <<>>]
    ELSE ReshapeResult(Flatten(Normalise(t.a)), r)

\* mutant of PyAppend: list.insert(0, x)
PyInsertFront(list, x) == <<x>> \o list

\* list.append
PyAppend(list, x) == Append(list, x)

\* the rows of the file as read, after truncation
RowCount(t) == IF t.ndim = 2 THEN Len(t.a) ELSE IF Len(t.a) = 0 THEN 0 ELSE 1

InitIngestVars ==
    /\ n_points \in 1..MaxNPoints
    /\ res = ISqrt(2 * n_points)
    /\ pos = 0
    /\ test_i = [ndim |-> 1, a |-> <<>>]
    /\ data_JHMAP_orbits = <<>>
    /\ data_JHMAP_labels = <<>>
    /\ file_rows = 0
    /\ loadtxt_log = <<>>
    /\ status = "running"

\* one iteration of: for data_i in data
LoopBody ==
    /\ status = "running"
    /\ pos < TableLen
    /\ \E raw \in Files :
        LET data_i == data[pos + 1]
            file_i == data_i[1]
            class_i == data_i[2]
            t == Truncate(LoadTxt(raw), n_points)
            built == BuildGrid(t, res)
        IN  /\ test_i' = t
            /\ loadtxt_log' = Append(loadtxt_log, [file |-> file_i, arr |-> t])
            /\ file_rows' = Len(raw)
            /\ pos' = pos + 1
            /\ IF built.ok
               THEN /\ data_JHMAP_orbits' = PyAppend(data_JHMAP_orbits, built.grid)
                    /\ data_JHMAP_labels' = PyAppend(data_JHMAP_labels, class_i)
                    /\ status' = "running"
               ELSE /\ status' = "failed"
                    /\ UNCHANGED <<data_JHMAP_orbits, data_JHMAP_labels>>
    /\ UNCHANGED <<n_points, res>>

\* data_JHMAP = data_JHMAP_orbits, data_JHMAP_labels
LoopExit ==
    /\ status = "running"
    /\ pos = TableLen
    /\ status' = "done"
    /\ UNCHANGED <<n_points, res, pos, test_i, data_JHMAP_orbits,
                   data_JHMAP_labels, file_rows, loadtxt_log>>

\* ------------------------------------------------------- specifications
vars == <<splitVars, lenVars, ingestVars>>

IdleSplitVars ==
    /\ X_train = <<>> /\ y = <<>> /\ Np = 0 /\ frac = [num |-> 2, den |-> 3]
    /\ data_SM = <<>> /\ data_train = <<>> /\ data_val = <<>> /\ pc = "idle"

IdleLenVars ==
    /\ lenNp = 0 /\ lenFrac = [num |-> 2, den |-> 3] /\ lenData = <<>>
    /\ lenTrain = 0 /\ lenVal = 0 /\ lenPc = "idle"

IdleIngestVars ==
    /\ n_points = 450 /\ res = 30 /\ pos = 0 /\ test_i = [ndim |-> 1, a |-> <<>>]
    /\ data_JHMAP_orbits = <<>> /\ data_JHMAP_labels = <<>>
    /\ file_rows = 0 /\ loadtxt_log = <<>> /\ status = "idle"

\* the shuffle-and-split cell
Init == InitSplitVars /\ IdleLenVars /\ IdleIngestVars

Next ==
    \/ Shuffle /\ UNCHANGED <<lenVars, ingestVars>>
    \/ TrainSlice /\ UNCHANGED <<lenVars, ingestVars>>
    \/ ValSlice /\ UNCHANGED <<lenVars, ingestVars>>

Spec == Init /\ [][Next]_vars

\* the slices of the split cell on datasets of up to MaxLen entries
InitLen == IdleSplitVars /\ InitLenVars /\ IdleIngestVars

NextLen ==
    \/ LenTrainSlice /\ UNCHANGED <<splitVars, ingestVars>>
    \/ LenValSlice /\ UNCHANGED <<splitVars, ingestVars>>

SpecLen == InitLen /\ [][NextLen]_vars

\* the JHMAP ingestion cell
InitIngest == IdleSplitVars /\ IdleLenVars /\ InitIngestVars

NextIngest ==
    \/ LoopBody /\ UNCHANGED <<splitVars, lenVars>>
    \/ LoopExit /\ UNCHANGED <<splitVars, lenVars>>

SpecIngest == InitIngest /\ [][NextIngest]_vars

\* ================================================================ claims

\* exact rational floor and ceiling of a/q (a >= 0, q >= 1)
FloorDiv(a, q) == a \div q

CeilDiv(a, q) == (a + q - 1) \div q

\* c is the truncation of a double-precision product whose exact value is
\* a/q: the exact floor, or one less when a/q is an integer
NearFloor(c, a, q) == c = FloorDiv(a, q) \/ (a % q = 0 /\ c = FloorDiv(a, q) - 1)

FirstOf(d, k) == SubSeq(d, 1, k)

LastOf(d, k) == SubSeq(d, Len(d) - k + 1, Len(d))

Aligned(sub) ==
    /\ Len(sub[1]) = Len(sub[2])
    /\ \A i \in 1..Len(sub[1]) :
          \E j \in 1..Np : sub[1][i] = X_train[j] /\ sub[2][i] = y[j]

\* C1: after the shuffle and the two slices, the train subset and the
\* validation subset each hold as many labels as grids, and the grid and
\* the label at every position come from one index of the source dataset.
C1_SamePermutation ==
    /\ pc \in {"train", "val", "done"} => Aligned(data_SM)
    /\ pc \in {"val", "done"} => Aligned(data_train)
    /\ pc = "done" => Aligned(data_val)

C1_Witness ==
    /\ pc = "done"
    /\ Len(data_train[1]) >= 2
    /\ Len(data_val[1]) >= 2
    /\ data_SM[1] # X_train
    /\ data_SM[2] # y
    /\ \E i, j \in 1..Len(data_train[2]) : data_train[2][i] # data_train[2][j]

\* C2: with frac = 2/3 a dataset whose length is a positive multiple of 3
\* (384 among them) is split into 2N/3 train entries and N/3 validation
\* entries.
C2_TwoThirds ==
    (lenPc = "done" /\ lenFrac = [num |-> 2, den |-> 3] /\ lenNp % 3 = 0)
        => (lenTrain = 2 * (lenNp \div 3) /\ lenVal = lenNp \div 3)

C2_Witness ==
    /\ lenPc = "done"
    /\ lenFrac = [num |-> 2, den |-> 3]
    /\ lenNp = 384
    /\ lenTrain = 256
    /\ lenVal = 128

C4_Disjoint ==
    (pc = "done" /\ 0 < frac.num /\ frac.num < frac.den) =>
        \A i \in 1..Len(data_train[1]) : \A j \in 1..Len(data_val[1]) :
            data_train[1][i] # data_val[1][j]

LastIterationFailed ==
    /\ status = "failed"
    /\ Len(data_JHMAP_orbits) = pos - 1
    /\ Len(data_JHMAP_labels) = pos - 1

\* C6 as stated: for every n_points, a file that has fewer than n_points
\* rows after truncation appends no grid and no label.
C6_ShortFileFails ==
    (pos >= 1 /\ RowCount(test_i) < n_points) => LastIterationFailed

\* C6 amended: when 2 * n_points is a perfect square (res * res =
\* 2 * n_points, as the notebook requires of n_points), a file that has
\* fewer than n_points rows after truncation appends no grid and no label.
C6_ShortFileFailsSquare ==
    (pos >= 1 /\ res * res = 2 * n_points /\ RowCount(test_i) < n_points)
        => LastIterationFailed

C6_Witness ==
    /\ pos >= 2
    /\ res * res = 2 * n_points
    /\ RowCount(test_i) < n_points
    /\ status = "failed"
    /\ Len(data_JHMAP_orbits) = pos - 1

InUnit(v) == v.d > 0 /\ 0 - v.d <= v.n /\ v.n <= v.d

\* the file read by iteration i had at least n_points rows, none of its
\* columns is all zero after truncation, and 2 * n_points = res * res
ReferenceCase(i) ==
    /\ res * res = 2 * n_points
    /\ loadtxt_log[i].arr.ndim = 2
    /\ RowCount(loadtxt_log[i].arr) >= n_points
    /\ \A c \in 1..2 : \E r \in 1..Len(loadtxt_log[i].arr.a) : loadtxt_log[i].arr.a[r][c] # 0

\* C7: a file of at least n_points rows with 2 * n_points = res * res and
\* a non-zero maximum absolute value on each column yields a res x res
\* grid whose every value lies in [-1, 1], each value being the file's
\* value divided by the largest absolute value of its column over the
\* truncated rows.
C7_NormalisedGrid ==
    \A i \in 1..Len(data_JHMAP_orbits) :
        ReferenceCase(i) =>
            LET grid == data_JHMAP_orbits[i]
                rows == loadtxt_log[i].arr.a
            IN  /\ Len(rows) = n_points
                /\ Len(grid) = res
                /\ \A a \in 1..res :
                      /\ Len(grid[a]) = res
                      /\ \A b \in 1..res :
                            LET k == (a - 1) * res + b
                                r == (k + 1) \div 2
                                c == IF k % 2 = 1 THEN 1 ELSE 2
                            IN  /\ InUnit(grid[a][b])
                                /\ grid[a][b].n = rows[r][c]
                                /\ \A q \in 1..Len(rows) : Abs(rows[q][c]) <= grid[a][b].d
                                /\ \E q \in 1..Len(rows) : Abs(rows[q][c]) = grid[a][b].d

C7_Witness ==
    /\ Len(data_JHMAP_orbits) = 1
    /\ pos = 1
    /\ ReferenceCase(1)
    /\ file_rows > n_points
    /\ \E a \in 1..res : \E b \in 1..res :
          data_JHMAP_orbits[1][a][b].n = 0 - data_JHMAP_orbits[1][a][b].d
    /\ \E a \in 1..res : \E b \in 1..res :
          /\ data_JHMAP_orbits[1][a][b].n > 0
          /\ data_JHMAP_orbits[1][a][b].n < data_JHMAP_orbits[1][a][b].d

\* C8: when every value of a column is 0, ingestion completes, the grid
\* holds 0 for that column and no grid value is undefined or non-finite.
C8_ZeroAxisSkipped ==
    \A i \in 1..Len(data_JHMAP_orbits) :
        \A a \in 1..Len(data_JHMAP_orbits[i]) :
            \A b \in 1..Len(data_JHMAP_orbits[i][a]) :
                data_JHMAP_orbits[i][a][b].d # 0

\* C9: while no iteration has failed, after k iterations Grids and Labels
\* both have length k, the i-th grid is the one built from the file of the
\* i-th table entry and the i-th label is that entry's label.
C9_OrderAndAlignment ==
    status \in {"running", "done"} =>
        /\ Len(data_JHMAP_orbits) = pos
        /\ Len(data_JHMAP_labels) = pos
        /\ Len(loadtxt_log) = pos
        /\ \A i \in 1..pos :
              /\ loadtxt_log[i].file = data[i][1]
              /\ data_JHMAP_labels[i] = data[i][2]
              /\ data_JHMAP_orbits[i] =
                    Reshape(Flatten(Normalise(loadtxt_log[i].arr.a)), res, res)

C9_Witness ==
    /\ status = "done"
    /\ pos = TableLen
    /\ pos >= 3
    /\ data_JHMAP_labels[1] # data_JHMAP_labels[3]
    /\ data_JHMAP_orbits[1] # data_JHMAP_orbits[2]
    /\ data_JHMAP_orbits[2] # data_JHMAP_orbits[3]

====
